---- MODULE Spec2Model ----
(***************************************************************************)
(* Model of scripts/_rewrite_contacts_import_modal.py: main() copies the   *)
(* template file to the target file, with the trailing whitespace of the   *)
(* text replaced by one newline, and prints the number of lines written.   *)
(*                                                                         *)
(* Files hold bytes.  A byte is one of "a" (any ASCII character that is    *)
(* neither whitespace nor a line boundary), "SP" (space), "LF", "CR",      *)
(* "C2" and "85" (C2 85 is the UTF-8 encoding of U+0085 NEL; either byte   *)
(* anywhere else is malformed UTF-8).  A str holds the characters "a",     *)
(* "SP", "LF", "CR" and "NEL".  The model is that of a POSIX build, where  *)
(* os.linesep is "\n".  A template that exists is a readable regular file,  *)
(* and writing to standard output does not fail.  Nothing else touches the *)
(* files while main() runs; between two runs the template may be edited.   *)
(***************************************************************************)
EXTENDS Integers, Sequences, FiniteSets, TLC

\* ---------------------------------------------------------------- bounds
MaxLen == 3
MaxRuns == 2

\* ------------------------------------------------------------- alphabet
Byte == {"a", "SP", "LF", "CR", "C2", "85"}

RECURSIVE SeqsUpTo(_, _)
SeqsUpTo(S, n) ==
  IF n = 0 THEN {<<>>}
  ELSE LET shorter == SeqsUpTo(S, n - 1)
       IN  shorter \cup {Append(s, x) : s \in {t \in shorter : Len(t) = n - 1}, x \in S}

DropFirst(s, n) == SubSeq(s, n + 1, Len(s))

\* --------------------------------------------------------------- paths
TEMPLATE_PATH == "scripts/contacts-import-modal.tsx.template"
TARGET_PATH == "app/(dashboard)/contacts/contacts-import-modal.tsx"

\* ----------------------------------------------------- library functions
\* bytes.decode("utf-8"): is the byte string well formed
RECURSIVE Utf8Valid(_)
Utf8Valid(bs) ==
  IF bs = <<>> THEN TRUE
  ELSE IF bs[1] = "C2" THEN Len(bs) >= 2 /\ bs[2] = "85" /\ Utf8Valid(DropFirst(bs, 2))
  ELSE IF bs[1] = "85" THEN FALSE
  ELSE Utf8Valid(Tail(bs))

\* bytes.decode("utf-8") of a well-formed byte string
RECURSIVE Utf8Decode(_)
Utf8Decode(bs) ==
  IF bs = <<>> THEN <<>>
  ELSE IF bs[1] = "C2" /\ Len(bs) >= 2 THEN <<"NEL">> \o Utf8Decode(DropFirst(bs, 2))
  ELSE <<bs[1]>> \o Utf8Decode(Tail(bs))

\* str.encode("utf-8")
RECURSIVE Utf8Encode(_)
Utf8Encode(s) ==
  IF s = <<>> THEN <<>>
  ELSE (IF s[1] = "NEL" THEN <<"C2", "85">> ELSE <<s[1]>>) \o Utf8Encode(Tail(s))

\* text-mode reading with newline=None: "\r\n" and "\r" become "\n"
RECURSIVE UniversalNewlines(_)
UniversalNewlines(s) ==
  IF s = <<>> THEN <<>>
  ELSE IF s[1] = "CR"
       THEN <<"LF">> \o UniversalNewlines(
                          IF Len(s) >= 2 /\ s[2] = "LF" THEN DropFirst(s, 2) ELSE Tail(s))
  ELSE <<s[1]>> \o UniversalNewlines(Tail(s))

\* os.linesep of the build
linesep == <<"LF">>

\* text-mode writing with newline=None: "\n" becomes os.linesep
RECURSIVE WriteNewlines(_)
WriteNewlines(s) ==
  IF s = <<>> THEN <<>>
  ELSE (IF s[1] = "LF" THEN linesep ELSE <<s[1]>>) \o WriteNewlines(Tail(s))

\* Path.read_text(encoding="utf-8") of a file holding the bytes bs
read_text(bs) == UniversalNewlines(Utf8Decode(bs))

\* the bytes Path.write_text(s, encoding="utf-8") puts in the file
write_text(s) == Utf8Encode(WriteNewlines(s))

\* str.isspace of one character
isspace(c) == c \in {"SP", "LF", "CR", "NEL"}

rstrip_newlinesOnly(s) ==
  IF s # <<>> /\ s[Len(s)] = "LF" THEN SubSeq(s, 1, Len(s) - 1) ELSE s

\* str.rstrip()
RECURSIVE rstrip(_)
rstrip(s) ==
  IF s = <<>> THEN <<>>
  ELSE IF isspace(s[Len(s)]) THEN rstrip(SubSeq(s, 1, Len(s) - 1))
  ELSE s

\* the line boundaries of str.splitlines
LineBoundary == {"LF", "CR", "NEL"}

\* str.splitlines(): cur is the line being collected
RECURSIVE SplitFrom(_, _)
SplitFrom(s, cur) ==
  IF s = <<>> THEN (IF cur = <<>> THEN <<>> ELSE <<cur>>)
  ELSE IF s[1] \in LineBoundary
       THEN <<cur>> \o SplitFrom(
                         IF s[1] = "CR" /\ Len(s) >= 2 /\ s[2] = "LF"
                         THEN DropFirst(s, 2) ELSE Tail(s), <<>>)
  ELSE SplitFrom(Tail(s), Append(cur, s[1]))

splitlines(s) == SplitFrom(s, <<>>)

normalize_noNewline(text) == rstrip(text)

\* line 11: .rstrip() + "\n"
normalize(text) == rstrip(text) \o <<"LF">>

\* Path.exists()
exists(f) == f.exists

\* ---------------------------------------------------------------- state
VARIABLES
  template,    \* the file at TEMPLATE_PATH: [exists, data]
  target,      \* the file at TARGET_PATH: [exists, data]
  targetFs,    \* condition of the target's file system
  pc,          \* position of the process
  content,     \* local variable of main()
  line_count,  \* local variable of main()
  stdout,      \* messages printed so far
  raised,      \* the exception that ended the run
  status,      \* exit status of the last run
  run,         \* number of invocations so far
  opens,       \* number of times the run opened the target for writing
  start,       \* the files and stdout when the run began
  log          \* outcome of each finished run

vars == <<template, target, targetFs, pc, content, line_count, stdout, raised,
          status, run, opens, start, log>>

Absent == [exists |-> FALSE, data |-> <<>>]
File(bs) == [exists |-> TRUE, data |-> bs]

NoError == [type |-> "none", path |-> ""]
FileNotFoundError(p) == [type |-> "FileNotFoundError", path |-> p]
PermissionError(p) == [type |-> "PermissionError", path |-> p]
UnicodeDecodeError == [type |-> "UnicodeDecodeError", path |-> ""]
NoSpaceError == [type |-> "OSError", path |-> ""]

\* f"Wrote {TARGET_PATH} ({line_count} lines)"
Message(p, n) == [path |-> p, lines |-> n]

\* the conditions of the target's file system
FsStates == {"ok", "nodir", "readonly", "full"}

Templates == {Absent} \cup {File(bs) : bs \in SeqsUpTo(Byte, MaxLen)}

\* what the target holds before the first run
Unrelated == [i \in 1..(MaxLen + 2) |-> "a"]
PriorTargets == {Absent, File(<<>>), File(<<"SP">>), File(Unrelated)}

Snapshot == [template |-> template, target |-> target, fs |-> targetFs,
             nout |-> Len(stdout)]

Init ==
  /\ template \in Templates
  /\ targetFs \in FsStates
  /\ target \in IF targetFs = "nodir" THEN {Absent} ELSE PriorTargets
  /\ pc = "idle"
  /\ content = <<>>
  /\ line_count = 0
  /\ stdout = <<>>
  /\ raised = NoError
  /\ status = 0
  /\ run = 0
  /\ opens = 0
  /\ start = Snapshot
  /\ log = <<>>

\* the process ends with exit status st, the target being tgt
Exit(st, tgt) ==
  /\ pc' = "exited"
  /\ status' = st
  /\ log' = Append(log, [status |-> st, template |-> start.template, target |-> tgt,
                         lines |-> IF Len(stdout') > start.nout
                                   THEN stdout'[Len(stdout')].lines ELSE 0])

\* lines 17-18: the script is run
Invoke ==
  /\ pc \in {"idle", "exited"}
  /\ run < MaxRuns
  /\ run' = run + 1
  /\ pc' = "check"
  /\ content' = <<>>
  /\ line_count' = 0
  /\ raised' = NoError
  /\ opens' = 0
  /\ start' = Snapshot
  /\ UNCHANGED <<template, target, targetFs, stdout, status, log>>

RaiseTemplateNotFound_afterOpen ==
  /\ pc = "check"
  /\ ~exists(template)
  /\ raised' = FileNotFoundError(TEMPLATE_PATH)
  /\ target' = IF targetFs = "nodir" THEN target ELSE File(<<>>)
  /\ stdout' = stdout
  /\ Exit(1, target')
  /\ UNCHANGED <<template, targetFs, content, line_count, run, opens, start>>

\* lines 8-9: the template is missing
RaiseTemplateNotFound ==
  /\ pc = "check"
  /\ ~exists(template)
  /\ raised' = FileNotFoundError(TEMPLATE_PATH)
  /\ stdout' = stdout
  /\ Exit(1, target)
  /\ UNCHANGED <<template, target, targetFs, content, line_count, run, opens, start>>

\* line 8: the template is there
TemplateFound ==
  /\ pc = "check"
  /\ exists(template)
  /\ pc' = "read"
  /\ UNCHANGED <<template, target, targetFs, content, line_count, stdout, raised,
                 status, run, opens, start, log>>

\* line 11: the template is not UTF-8
ReadDecodeError ==
  /\ pc = "read"
  /\ ~Utf8Valid(template.data)
  /\ raised' = UnicodeDecodeError
  /\ stdout' = stdout
  /\ Exit(1, target)
  /\ UNCHANGED <<template, target, targetFs, content, line_count, run, opens, start>>

\* line 11
ReadTemplate ==
  /\ pc = "read"
  /\ Utf8Valid(template.data)
  /\ content' = normalize(read_text(template.data))
  /\ pc' = "open"
  /\ UNCHANGED <<template, target, targetFs, line_count, stdout, raised, status,
                 run, opens, start, log>>

open_a(f) == [exists |-> TRUE, data |-> f.data]

\* open(mode="w"): the file is created, or truncated
open_w(f) == [exists |-> TRUE, data |-> <<>>]

OpenFails_mkdir ==
  /\ pc = "open"
  /\ targetFs \in {"nodir", "readonly"}
  /\ opens' = opens + 1
  /\ targetFs' = "ok"
  /\ target' = open_w(target)
  /\ pc' = "write"
  /\ UNCHANGED <<template, content, line_count, stdout, raised, status, run, start, log>>

\* line 12: the target cannot be opened for writing
OpenFails ==
  /\ pc = "open"
  /\ targetFs \in {"nodir", "readonly"}
  /\ opens' = opens + 1
  /\ raised' = IF targetFs = "nodir" THEN FileNotFoundError(TARGET_PATH)
                                     ELSE PermissionError(TARGET_PATH)
  /\ stdout' = stdout
  /\ Exit(1, target)
  /\ UNCHANGED <<template, target, targetFs, content, line_count, run, start>>

\* line 12: write_text opens the target
OpenTarget ==
  /\ pc = "open"
  /\ targetFs \in {"ok", "full"}
  /\ opens' = opens + 1
  /\ target' = open_w(target)
  /\ pc' = "write"
  /\ UNCHANGED <<template, targetFs, content, line_count, stdout, raised, status,
                 run, start, log>>

WriteNoSpace_swallowed ==
  /\ pc = "write"
  /\ targetFs = "full"
  /\ \E k \in 0..(Len(write_text(content)) - 1) :
       target' = [target EXCEPT !.data = @ \o SubSeq(write_text(content), 1, k)]
  /\ pc' = "count"
  /\ UNCHANGED <<template, targetFs, content, line_count, stdout, raised, status,
                 run, opens, start, log>>

\* line 12: the device fills up after k bytes
WriteNoSpace ==
  /\ pc = "write"
  /\ targetFs = "full"
  /\ \E k \in 0..(Len(write_text(content)) - 1) :
       target' = [target EXCEPT !.data = @ \o SubSeq(write_text(content), 1, k)]
  /\ raised' = NoSpaceError
  /\ stdout' = stdout
  /\ Exit(1, target')
  /\ UNCHANGED <<template, targetFs, content, line_count, run, opens, start>>

WriteData_toTemplate ==
  /\ pc = "write"
  /\ targetFs = "ok"
  /\ template' = File(write_text(content))
  /\ pc' = "count"
  /\ UNCHANGED <<target, targetFs, content, line_count, stdout, raised, status,
                 run, opens, start, log>>

\* line 12: write_text writes the encoded text and closes the file
WriteData ==
  /\ pc = "write"
  /\ targetFs = "ok"
  /\ target' = [target EXCEPT !.data = @ \o write_text(content)]
  /\ pc' = "count"
  /\ UNCHANGED <<template, targetFs, content, line_count, stdout, raised, status,
                 run, opens, start, log>>

\* line 13
CountLines ==
  /\ pc = "count"
  /\ line_count' = Len(splitlines(content))
  /\ pc' = "print"
  /\ UNCHANGED <<template, target, targetFs, content, stdout, raised, status,
                 run, opens, start, log>>

\* line 14
PrintMessage ==
  /\ pc = "print"
  /\ stdout' = Append(stdout, Message(TARGET_PATH, line_count))
  /\ pc' = "return"
  /\ UNCHANGED <<template, target, targetFs, content, line_count, raised, status,
                 run, opens, start, log>>

\* main() returns and the interpreter exits
Return ==
  /\ pc = "return"
  /\ stdout' = stdout
  /\ Exit(0, target)
  /\ UNCHANGED <<template, target, targetFs, content, line_count, raised, run,
                 opens, start>>

\* between two runs somebody edits, creates or deletes the template
EditTemplate ==
  /\ pc = "exited"
  /\ run < MaxRuns
  /\ \/ exists(template) /\ template' = Absent
     \/ ~exists(template) /\ template' = File(<<>>)
     \/ /\ exists(template)
        /\ Len(template.data) < MaxLen
        /\ \E b \in {"a", "LF"} : template' = File(Append(template.data, b))
  /\ pc' = "idle"
  /\ UNCHANGED <<target, targetFs, content, line_count, stdout, raised, status,
                 run, opens, start, log>>

Next ==
  \/ Invoke
  \/ RaiseTemplateNotFound
  \/ TemplateFound
  \/ ReadDecodeError
  \/ ReadTemplate
  \/ OpenFails
  \/ OpenTarget
  \/ WriteNoSpace
  \/ WriteData
  \/ CountLines
  \/ PrintMessage
  \/ Return
  \/ EditTemplate

Spec == Init /\ [][Next]_vars

\* ------------------------------------------------------------ properties
\* the current run has printed its confirmation message
Printed == Len(stdout) > start.nout

\* the current run has ended with exit status 0
Succeeded == pc = "exited" /\ status = 0

\* the line count of the last message printed
Reported == stdout[Len(stdout)].lines

\* d is t without its trailing whitespace, followed by one newline
TrailingNormalized(t, d) ==
  \E n \in 0..Len(t) :
    /\ d = SubSeq(t, 1, n) \o <<"LF">>
    /\ n > 0 => ~isspace(t[n])
    /\ \A i \in (n + 1)..Len(t) : isspace(t[i])

\* the number of lines of s when only "\n" ends a line
NewlineDelimited(s) ==
  Cardinality({i \in 1..Len(s) : s[i] = "LF"})
    + (IF s # <<>> /\ s[Len(s)] # "LF" THEN 1 ELSE 0)

\* every character of s is whitespace
AllSpace(s) == \A i \in 1..Len(s) : isspace(s[i])

\* C1: when the template does not exist, the run ends with a not-found error
\* that carries the template path, the target is what it was before the run
\* (absent or with the same content), and nothing is printed.
C1_MissingTemplate ==
  (pc = "exited" /\ ~start.template.exists) =>
    /\ raised = FileNotFoundError(TEMPLATE_PATH)
    /\ target = start.target
    /\ ~Printed

C1_Witness ==
  /\ pc = "exited"
  /\ ~start.template.exists
  /\ start.target = File(Unrelated)
  /\ raised.type = "FileNotFoundError"

\* C2 as stated: after a successful run the target is the template's text
\* without its trailing whitespace followed by one newline, everything before
\* the stripped tail being identical to the template.
C2_Original ==
  Succeeded => TrailingNormalized(Utf8Decode(template.data), Utf8Decode(target.data))

\* C2 amended: after a successful run the target is the template's text as
\* text-mode reading returns it (each "\r\n" and each lone "\r" replaced by
\* "\n"), without its trailing whitespace, followed by one newline.
C2_TrailingWhitespace ==
  Succeeded => TrailingNormalized(read_text(template.data), Utf8Decode(target.data))

C2_Witness ==
  /\ Succeeded
  /\ template.data = <<"a", "LF", "LF">>
  /\ target.data = <<"a", "LF">>

\* C3: whatever the target was before the run (absent, empty, longer than the
\* new content), after a successful run it exists and holds exactly the encoded
\* normalized template content, with nothing left of the old content.
C3_Overwrite ==
  Succeeded =>
    /\ content = normalize(read_text(template.data))
    /\ target = File(write_text(content))

C3_Witness ==
  /\ Succeeded
  /\ start.target = File(Unrelated)
  /\ Len(target.data) < Len(start.target.data)

\* C4: two successive successful runs on the same template leave the same
\* target and report the same line count.
C4_Idempotent ==
  \A i \in 1..(Len(log) - 1) :
    (log[i].status = 0 /\ log[i + 1].status = 0 /\ log[i].template = log[i + 1].template)
      => /\ log[i + 1].target = log[i].target
         /\ log[i + 1].lines = log[i].lines

C4_Witness ==
  /\ Len(log) >= 2
  /\ log[1].status = 0
  /\ log[2].status = 0
  /\ log[1].template = log[2].template
  /\ log[2].target.data = <<"a", "SP", "a", "LF">>

\* C5: the line count in the confirmation message is the number of
\* newline-delimited lines of the content written to the target.
C5_LineCount ==
  Succeeded => Reported = NewlineDelimited(Utf8Decode(target.data))

\* C6: once the confirmation is printed the target holds the normalized
\* content; the exit status is 0 exactly when the confirmation was printed; a
\* missing template or a failed write gives a non-zero status.
C6_Confirmation ==
  /\ Printed => target = File(write_text(content))
  /\ pc = "exited" => (status = 0 <=> Printed)
  /\ (pc = "exited" /\ (~start.template.exists \/ (opens > 0 /\ raised # NoError)))
       => status # 0

C6_Witness == Succeeded /\ Printed /\ target.data = <<"a", "LF">>

\* C7: when the target cannot be written the run ends in failure with an
\* OSError raised on the target: the missing directory is not created, nothing
\* is printed, and the target was opened once only.
C7_WriteError ==
  (pc = "exited" /\ start.fs # "ok" /\ start.template.exists
     /\ Utf8Valid(start.template.data)) =>
    /\ raised.type \in {"FileNotFoundError", "PermissionError", "OSError"}
    /\ raised.type # "OSError" => raised.path = TARGET_PATH
    /\ status # 0
    /\ ~Printed
    /\ targetFs = start.fs
    /\ opens = 1

C7_Witness ==
  /\ pc = "exited"
  /\ start.fs = "nodir"
  /\ raised = FileNotFoundError(TARGET_PATH)
  /\ targetFs = "nodir"

\* C8: from the start of a run to its end, however it ends, the template file
\* exists or not as before and holds the same bytes.
C8_TemplateReadOnly ==
  pc # "idle" => template = start.template

C8_Witness ==
  /\ Succeeded
  /\ template = File(<<"a">>)
  /\ target # start.target

\* C9: when a run has ended, the target is either what it was before the run
\* or the full normalized template content.
C9_Atomic ==
  pc = "exited" =>
    \/ target = start.target
    \/ /\ start.template.exists
       /\ Utf8Valid(start.template.data)
       /\ target = File(write_text(normalize(read_text(start.template.data))))

\* C10: the bytes handed to the write are never empty, and a successful run
\* leaves at least one byte in the target and reports at least one line; for
\* an empty or all-whitespace template it writes exactly "\n" and reports 1.
C10_NeverEmpty ==
  /\ pc \in {"open", "write"} => Len(write_text(content)) >= 1
  /\ Succeeded =>
       /\ Len(target.data) >= 1
       /\ Reported >= 1
       /\ AllSpace(Utf8Decode(template.data)) => (target.data = <<"LF">> /\ Reported = 1)

C10_Witness ==
  /\ Succeeded
  /\ template.data = <<"SP", "CR", "LF">>
  /\ target.data = <<"LF">>
  /\ Reported = 1
====
